---- MODULE Spec2Model ----
(***************************************************************************)
(* PhytoScan: the diagnostic engine of the three app variants.             *)
(*                                                                         *)
(*   "v2"    src/imageProcessor.ts  App, key phytoscan_history_v2, cap 20, *)
(*           remote oracle + calculateSeverity                             *)
(*   "v3"    src/index.tsx          App, key phytoscan_history_v3, cap 10, *)
(*           remote oracle + calculateSeverityScore                        *)
(*   "local" src/constants.tsx      App, key phytoscan_local_v1,   cap 15, *)
(*           performLocalAnalysis (pixel heuristic)                        *)
(*                                                                         *)
(* JavaScript values are modelled as records [t, v]: t = "num" with v the  *)
(* value in thousandths, t = "nan", t = "undef" (a missing JSON field) and *)
(* t = "obj" (a non-numeric object, e.g. an inherited Object.prototype     *)
(* member).  Arithmetic is exact on the value sets used here; IEEE-754     *)
(* rounding is not modelled.                                               *)
(***************************************************************************)
EXTENDS Integers, Sequences, FiniteSets, TLC

VARIABLES
  variant,        \* the app variant: "v2", "v3" or "local"
  mounted,        \* the mount effect (useEffect(..., [])) has run
  storage,        \* localStorage under the variant's key
  history,        \* useState<HistoryItem[]>
  selectedImage,  \* useState<string | null>: 0 is null, k > 0 is image k
  isCameraActive, \* useState(false)
  analyzing,      \* useState(false)
  result,         \* useState<AnalysisResult | null>
  inflight,       \* the pending classifier promises, each with the closure of its handler
  nextId,         \* number of analyses started so far (source of ids and timestamps)
  alerts,         \* number of alert("Analysis ...") calls of the catch blocks
  log,            \* ids handed to saveToHistory, in call order (oldest first)
  resultOf,       \* the image the shown result was computed from (0: none)
  probe,          \* input of the pure function under test
  probeOut,       \* output of the pure function under test
  lastKind,       \* how the classifier call of the last settled request ended
  oracleCalls     \* number of generateContent calls sent to the remote oracle

vars == <<variant, mounted, storage, history, selectedImage, isCameraActive,
          analyzing, result, inflight, nextId, alerts, log, resultOf, probe, probeOut, lastKind,
          oracleCalls>>

appVars == <<variant, mounted, storage, history, selectedImage, isCameraActive,
             analyzing, result, inflight, nextId, alerts, log, resultOf, oracleCalls>>

(***************************************************************************)
(* Bounds of the model                                                     *)
(***************************************************************************)
MaxRequests == 2        \* analyses started per run of the app specification
MaxAppends == 25        \* analyses started per run of the ledger specification
NumImages == 2          \* distinct images a user can select
MaxLesionCount == 12    \* largest lesionCount fed to the scorers
MaxSizeSteps == 30      \* avgLesionSize ranges over this many steps of 2.5 mm
MinusRange == 2         \* how far below zero the scorer inputs go

(***************************************************************************)
(* JavaScript values                                                       *)
(***************************************************************************)
null == [null |-> TRUE]

Num(x) == [t |-> "num", v |-> x]
NaN == [t |-> "nan", v |-> 0]
Undef == [t |-> "undef", v |-> 0]
Obj == [t |-> "obj", v |-> 0]

IsNum(a) == a.t = "num"

\* a * b (ToNumber of undefined and of a function is NaN)
Mul(a, b) == IF IsNum(a) /\ IsNum(b) THEN Num((a.v * b.v) \div 1000) ELSE NaN

\* a / b for a numeric literal b # 0
Div(a, b) == IF IsNum(a) /\ IsNum(b) THEN Num((a.v * 1000) \div b.v) ELSE NaN

\* a + b on numbers; with undefined the sum is NaN, with an object it is a
\* string that every later numeric use turns into NaN
Add(a, b) == IF IsNum(a) /\ IsNum(b) THEN Num(a.v + b.v) ELSE NaN

\* Math.min(a, b)
MathMin(a, b) ==
  IF IsNum(a) /\ IsNum(b) THEN (IF a.v <= b.v THEN a ELSE b) ELSE NaN

\* ToBoolean: 0, NaN and undefined are falsy; objects and other numbers truthy
Truthy(a) == a.t = "obj" \/ (a.t = "num" /\ a.v # 0)

\* a || b
OrElse(a, b) == IF Truthy(a) THEN a ELSE b

\* Number.prototype.toFixed(1) of num/den: the decimal string with one
\* fraction digit, as [nan, neg, tenths]; "0.0" is [FALSE, FALSE, 0] and
\* "NaN" is [TRUE, FALSE, 0].  Ties round away from zero.
FixedOf(num, den) ==
  LET m == IF num < 0 THEN 0 - num ELSE num
  IN [nan |-> FALSE, neg |-> num < 0, tenths |-> (20 * m + den) \div (2 * den)]

NaNString == [nan |-> TRUE, neg |-> FALSE, tenths |-> 0]

toFixed1(a) == IF IsNum(a) THEN FixedOf(a.v, 1000) ELSE NaNString

ZeroString == [nan |-> FALSE, neg |-> FALSE, tenths |-> 0]

\* the number a score string denotes, in tenths (for comparisons)
ScoreTenths(s) == IF s.neg THEN 0 - s.tenths ELSE s.tenths

(***************************************************************************)
(* Stage codes                                                             *)
(***************************************************************************)
DiseaseStage == {"H0", "E1", "E2", "E3", "N0"}

StageMissing == "<undefined>"       \* the response has no stage field
StageUnknown == "X9"                \* a code outside the enumeration
StageInherited == "constructor"     \* a name every object literal inherits

AnyStage == DiseaseStage \cup {StageMissing, StageUnknown, StageInherited}

\* property names that an object literal resolves through Object.prototype
InheritedKeys == {StageInherited}

(***************************************************************************)
(* Severity scorers                                                        *)
(***************************************************************************)
\* severityScores with the E2 term counting down from its cap
severityScores_Inverted(stage, lesionCount, avgLesionSize) ==
  CASE stage = "H0" -> Num(0)
    [] stage = "E1" -> MathMin(Mul(Mul(lesionCount, avgLesionSize), Num(200)), Num(15000))
    [] stage = "E2" -> MathMin(Add(Num(45000), Mul(Mul(lesionCount, avgLesionSize), Num(-800))),
                              Num(45000))
    [] stage = "E3" -> MathMin(Mul(Mul(lesionCount, avgLesionSize), Num(2000)), Num(100000))
    [] stage = "N0" -> Num(0)
    [] stage \in InheritedKeys -> Obj
    [] OTHER -> Undef

\* severityScores without the caps of the stages
severityScores_NoStageCap(stage, lesionCount, avgLesionSize) ==
  CASE stage = "H0" -> Num(0)
    [] stage = "E1" -> Mul(Mul(lesionCount, avgLesionSize), Num(200))
    [] stage = "E2" -> Mul(Mul(lesionCount, avgLesionSize), Num(800))
    [] stage = "E3" -> Mul(Mul(lesionCount, avgLesionSize), Num(2000))
    [] stage = "N0" -> Num(0)
    [] stage \in InheritedKeys -> Obj
    [] OTHER -> Undef

\* severityScores[stage] of calculateSeverity
severityScores(stage, lesionCount, avgLesionSize) ==
  CASE stage = "H0" -> Num(0)
    [] stage = "E1" -> MathMin(Mul(Mul(lesionCount, avgLesionSize), Num(200)), Num(15000))
    [] stage = "E2" -> MathMin(Mul(Mul(lesionCount, avgLesionSize), Num(800)), Num(45000))
    [] stage = "E3" -> MathMin(Mul(Mul(lesionCount, avgLesionSize), Num(2000)), Num(100000))
    [] stage = "N0" -> Num(0)
    [] stage \in InheritedKeys -> Obj
    [] OTHER -> Undef

calculateSeverity(stage, lesionCount, avgLesionSize) ==
  toFixed1(MathMin(OrElse(severityScores(stage, lesionCount, avgLesionSize), Num(0)),
                   Num(100000)))

\* base[stage] of calculateSeverityScore
base(stage) ==
  CASE stage = "H0" -> Num(0)
    [] stage = "E1" -> Num(15000)
    [] stage = "E2" -> Num(50000)
    [] stage = "E3" -> Num(100000)
    [] stage = "N0" -> Num(0)
    [] stage \in InheritedKeys -> Obj
    [] OTHER -> Undef

calculateSeverityScore(stage, lesionCount, avgSize) ==
  LET modifier == Div(Mul(lesionCount, avgSize), Num(10000))
      score == Add(OrElse(base(stage), Num(0)), modifier)
  IN toFixed1(MathMin(score, Num(100000)))

(***************************************************************************)
(* Disease knowledge base                                                  *)
(***************************************************************************)
undefined == [undefined |-> TRUE]

\* Object.prototype.constructor, the value of obj["constructor"] on any
\* object literal: the function Object, whose name property is "Object"
ObjectFunction == [entry |-> "<inherited>", name |-> "Object"]

\* x || y on object references
OrInfo(x, y) == IF x = undefined THEN y ELSE x

\* DISEASE_DATABASE[key] of src/constants.tsx (exported; used by the v2 App)
DISEASE_DATABASE_V2(key) ==
  CASE key = "H0" -> [entry |-> "H0", name |-> "Healthy Plant"]
    [] key = "E1" -> [entry |-> "E1", name |-> "Early Infection (Cercospora Leaf Spot)"]
    [] key = "E2" -> [entry |-> "E2", name |-> "Mid Infection (Cercospora Leaf Spot)"]
    [] key = "E3" -> [entry |-> "E3", name |-> "Late/Severe Infection (Cercospora Leaf Spot)"]
    [] key = "N0" -> [entry |-> "N0", name |-> "Non-Disease / Image Quality Issue"]
    [] key \in InheritedKeys -> ObjectFunction
    [] OTHER -> undefined

\* DISEASE_DATABASE[key] of src/index.tsx (the v3 App)
DISEASE_DATABASE_V3(key) ==
  CASE key = "H0" -> [entry |-> "H0", name |-> "Healthy Kangkung"]
    [] key = "E1" -> [entry |-> "E1", name |-> "Early Cercospora Spot"]
    [] key = "E2" -> [entry |-> "E2", name |-> "Active Infection Stage"]
    [] key = "E3" -> [entry |-> "E3", name |-> "Severe Necrotic Blight"]
    [] key = "N0" -> [entry |-> "N0", name |-> "Image Quality Issue"]
    [] key \in InheritedKeys -> ObjectFunction
    [] OTHER -> undefined

\* DISEASE_DATABASE[key] of the local-scan App in src/constants.tsx
DISEASE_DATABASE_LOCAL(key) ==
  CASE key = "H0" -> [entry |-> "H0", name |-> "Healthy Kangkung"]
    [] key = "E1" -> [entry |-> "E1", name |-> "Early Cercospora"]
    [] key = "E2" -> [entry |-> "E2", name |-> "Active Infection"]
    [] key = "E3" -> [entry |-> "E3", name |-> "Severe Necrosis"]
    [] key = "N0" -> [entry |-> "N0", name |-> "Non-Diagnostic Input"]
    [] key \in InheritedKeys -> ObjectFunction
    [] OTHER -> undefined

(***************************************************************************)
(* Local heuristic classifier                                              *)
(***************************************************************************)
GridSide == 120
GridPixels == GridSide * GridSide

\* A decoded 120x120 grid is modelled by three regions of uniform colour:
\* na pixels of colour a, nb of colour b and the rest of colour c.
Palette ==
  { <<40, 120, 30>>,      \* saturated green
    <<100, 120, 40>>,     \* green-dominant, red above 0.75 * green
    <<90, 120, 40>>,      \* green-dominant, red exactly 0.75 * green
    <<30, 50, 20>>,       \* green-dominant, all channels below 60
    <<30, 45, 20>>,       \* green-dominant, green exactly 45
    <<120, 100, 40>>,     \* red-dominant brown
    <<40, 120, 120>>,     \* green equal to blue
    <<200, 200, 200>> }   \* bright background

RegionSizes == {0, 1, 2, 3, 100, 150, 799, 800, 850, 900, 1000}

Grids ==
  { [a |-> ca, na |-> x, b |-> cb, nb |-> y, c |-> cc] :
      ca \in Palette, x \in RegionSizes, cb \in Palette, y \in RegionSizes, cc \in Palette }

isGreen(px) == px[2] > px[1] /\ px[2] > px[3] /\ px[2] > 45

\* isNecrotic with r >= g * 0.75
isNecrotic_AtLeast(px) ==
  (4 * px[1] >= 3 * px[2]) \/ (px[1] < 60 /\ px[2] < 60 /\ px[3] < 60)

\* r > g * 0.75  is  4r > 3g
isNecrotic(px) == (4 * px[1] > 3 * px[2]) \/ (px[1] < 60 /\ px[2] < 60 /\ px[3] < 60)

\* the pixel loop: the counters after all pixels of the grid were visited
leafPixels(grid) ==
    (IF isGreen(grid.a) THEN grid.na ELSE 0)
  + (IF isGreen(grid.b) THEN grid.nb ELSE 0)
  + (IF isGreen(grid.c) THEN GridPixels - grid.na - grid.nb ELSE 0)

\* the necrotic test applied outside the isGreen branch
necroticPixels_OutsideLeaf(grid) ==
    (IF isNecrotic(grid.a) THEN grid.na ELSE 0)
  + (IF isNecrotic(grid.b) THEN grid.nb ELSE 0)
  + (IF isNecrotic(grid.c) THEN GridPixels - grid.na - grid.nb ELSE 0)

necroticPixels(grid) ==
    (IF isGreen(grid.a) /\ isNecrotic(grid.a) THEN grid.na ELSE 0)
  + (IF isGreen(grid.b) /\ isNecrotic(grid.b) THEN grid.nb ELSE 0)
  + (IF isGreen(grid.c) /\ isNecrotic(grid.c) THEN GridPixels - grid.na - grid.nb ELSE 0)

\* the two upper bands in the wrong order
localStage_SwappedBands(leaf, necrotic) ==
  IF leaf < 800 THEN "N0"
  ELSE IF 100 * necrotic > 22 * leaf THEN "E2"
  ELSE IF 100 * necrotic > 10 * leaf THEN "E3"
  ELSE IF 100 * necrotic > 2 * leaf THEN "E1"
  ELSE "H0"

\* the stage bands tested before the area gate
localStage_BandsFirst(leaf, necrotic) ==
  IF 100 * necrotic > 22 * leaf THEN "E3"
  ELSE IF 100 * necrotic > 10 * leaf THEN "E2"
  ELSE IF 100 * necrotic > 2 * leaf THEN "E1"
  ELSE IF leaf < 800 THEN "N0"
  ELSE "H0"

\* the stage decided from the two counters (ratio = necrotic / leaf, compared
\* exactly: ratio > 0.22 is 100 * necrotic > 22 * leaf)
localStage(leaf, necrotic) ==
  IF leaf < 800 THEN "N0"
  ELSE IF 100 * necrotic > 22 * leaf THEN "E3"
  ELSE IF 100 * necrotic > 10 * leaf THEN "E2"
  ELSE IF 100 * necrotic > 2 * leaf THEN "E1"
  ELSE "H0"

\* Math.round(necroticPixels / 4.5), a whole number
localLesionCount(necrotic) == (4 * necrotic + 9) \div 18

\* the severity taken from the share of leaf pixels in the grid
localSeverity_LeafShare(leaf, necrotic) == FixedOf(100 * leaf, GridPixels)

\* (ratio * 100).toFixed(1), ratio being 0 when there are no leaf pixels
localSeverity(leaf, necrotic) ==
  IF leaf > 0 THEN FixedOf(100 * necrotic, leaf) ELSE FixedOf(0, 1)

\* the AnalysisResult resolved by performLocalAnalysis for a decoded grid
performLocalAnalysis(grid, id) ==
  LET leaf == leafPixels(grid)
      necrotic == necroticPixels(grid)
      stage == localStage(leaf, necrotic)
  IN [ id |-> id,
       stage |-> stage,
       confidence |-> IF stage = "N0" THEN Num(400) ELSE Num(880),
       disease |-> DISEASE_DATABASE_LOCAL(stage),
       lesionCount |-> Num(1000 * localLesionCount(necrotic)),
       severityScore |-> localSeverity(leaf, necrotic),
       timestamp |-> id ]

(***************************************************************************)
(* History items and their persisted form                                  *)
(***************************************************************************)
Capacity(v) == CASE v = "v2" -> 20 [] v = "v3" -> 10 [] v = "local" -> 15

\* xs.slice(0, n)
Slice(xs, n) == SubSeq(xs, 1, IF Len(xs) < n THEN Len(xs) ELSE n)

Reverse(xs) == [i \in 1..Len(xs) |-> xs[Len(xs) + 1 - i]]

\* members whose value is undefined
UndefinedMembers(obj) ==
  {k \in DOMAIN obj : \/ k = "stage" /\ obj[k] = StageMissing
                      \/ k = "confidence" /\ obj[k] = Undef}

\* JSON.stringify of one object: members whose value is undefined are left out
stringifyObject(obj) == [k \in (DOMAIN obj) \ UndefinedMembers(obj) |-> obj[k]]

\* JSON.stringify(items), as the sequence of the encoded objects
JSONstringify(items) == [i \in 1..Len(items) |-> stringifyObject(items[i])]

\* JSON.parse of a stored sequence: the objects with the members that were written
JSONparse(json) == [i \in 1..Len(json) |-> json[i]]

\* item.stage, item.confidence: reading a member that the
\* object lacks yields undefined
itemStage(item) == IF "stage" \in DOMAIN item THEN item.stage ELSE StageMissing
itemConfidence(item) == IF "confidence" \in DOMAIN item THEN item.confidence ELSE Undef

\* localStorage.getItem(key) is null when the key is absent
NoKey == [present |-> FALSE, json |-> <<>>]
Stored(items) == [present |-> TRUE, json |-> JSONstringify(items)]

\* the mount effect: if (saved) setHistory(JSON.parse(saved))
loadHistory(saved, current) == IF saved.present THEN JSONparse(saved.json) ELSE current

\* newItem of saveToHistory in the v2 App
newItemV2(res) ==
  [ id |-> res.id, timestamp |-> res.timestamp, stage |-> res.stage,
    diseaseName |-> res.disease.name, confidence |-> res.confidence,
    severityScore |-> res.severityScore ]

\* saveToHistory of the v2 App without the slice
saveToHistoryV2_Unbounded(res, hist) == <<newItemV2(res)>> \o hist

\* saveToHistory of the v2 App pushing at the end instead of the front
saveToHistoryV2_PushBack(res, hist) == Slice(hist \o <<newItemV2(res)>>, 20)

\* updated of saveToHistory in the v2 App; hist is the history captured by the closure
saveToHistoryV2(res, hist) == Slice(<<newItemV2(res)>> \o hist, 20)

\* newItem of saveToHistory in the v3 App
newItemV3(res) ==
  [ id |-> res.id, timestamp |-> res.timestamp, stage |-> res.stage,
    diseaseName |-> res.disease.name, confidence |-> res.confidence,
    severityScore |-> res.severityScore ]

saveToHistoryV3(res, hist) == Slice(<<newItemV3(res)>> \o hist, 10)

\* newItem of saveToHistory in the local-scan App (no confidence member)
newItemLocal(res) ==
  [ id |-> res.id, timestamp |-> res.timestamp, stage |-> res.stage,
    diseaseName |-> res.disease.name, severityScore |-> res.severityScore ]

\* saveToHistory of the local-scan App overwriting the newest item
saveToHistoryLocal_ReplacesHead(res, hist) ==
  Slice(<<newItemLocal(res)>> \o (IF hist = <<>> THEN <<>> ELSE Tail(hist)), 15)

saveToHistoryLocal(res, hist) == Slice(<<newItemLocal(res)>> \o hist, 15)

(***************************************************************************)
(* Remote oracle                                                           *)
(***************************************************************************)
Reply(stage, confidence, lesionCount, avgLesionSize) ==
  [ stage |-> stage, confidence |-> confidence,
    lesionCount |-> lesionCount, avgLesionSize |-> avgLesionSize ]

\* response objects the oracle can deliver (the schema of the request is not
\* enforced on the response by the client)
ReplyObjects ==
  { Reply("E2", Num(950), Num(12000), Num(2500)),
    Reply("H0", Num(990), Num(0), Num(0)),
    Reply("N0", Num(300), Num(0), Num(0)),
    Reply("E1", Num(900), Undef, Num(2500)),           \* lesionCount missing
    Reply("E3", Num(1500), Num(-5000), Num(2500)),     \* confidence 1.5, lesionCount -5
    Reply("H0", Undef, Num(0), Undef),                 \* confidence and avgLesionSize missing
    Reply(StageUnknown, Num(800), Num(3000), Num(1000)),
    Reply(StageInherited, Num(800), Num(3000), Num(1000)),
    Reply(StageMissing, Num(800), Num(3000), Num(1000)) }

\* what one generateContent call can end in
OracleOutcomes ==
  { [kind |-> "reject", data |-> null],        \* network failure: the promise rejects
    [kind |-> "badjson", data |-> null],       \* response.text is not JSON
    [kind |-> "null", data |-> null] }         \* response.text is the JSON text null
  \cup { [kind |-> "object", data |-> d] : d \in ReplyObjects }

\* the required members of the response schema
RequiredFields == {"stage", "confidence", "lesionCount", "avgLesionSize"}

MissingFields(d) ==
  {f \in RequiredFields : IF f = "stage" THEN d[f] = StageMissing ELSE d[f] = Undef}

\* how a call ended: rejected, unparsable text, the JSON value null, an object
\* that lacks required members ("partial"), or a complete object
KindOf(outcome) ==
  IF outcome.kind # "object" THEN outcome.kind
  ELSE IF MissingFields(outcome.data) # {} THEN "partial" ELSE "object"

Threw == [threw |-> TRUE, data |-> null]
Returned(d) == [threw |-> FALSE, data |-> d]

\* analyzePlantImage swallowing the error and answering with a default object
analyzePlantImageV2_Fallback(outcome) ==
  IF outcome.kind \in {"reject", "badjson"}
  THEN Returned(Reply("N0", Num(0), Num(0), Num(0)))
  ELSE Returned(outcome.data)

\* analyzePlantImage of src/geminiService.ts: one call, JSON.parse, rethrow
analyzePlantImageV2(outcome) ==
  IF outcome.kind \in {"reject", "badjson"} THEN Threw ELSE Returned(outcome.data)

\* analyzePlantImage of src/index.tsx
analyzePlantImageV3(outcome) ==
  IF outcome.kind \in {"reject", "badjson"} THEN Threw ELSE Returned(outcome.data)

\* finalResult of runAnalysis
finalResultV2(aiData, id) ==
  [ id |-> id,
    stage |-> aiData.stage,
    confidence |-> aiData.confidence,
    disease |-> OrInfo(DISEASE_DATABASE_V2(aiData.stage), DISEASE_DATABASE_V2("N0")),
    lesionCount |-> aiData.lesionCount,
    avgLesionSize |-> aiData.avgLesionSize,
    severityScore |-> calculateSeverity(aiData.stage, aiData.lesionCount, aiData.avgLesionSize),
    timestamp |-> id ]

\* finalResult of handleAnalysis
finalResultV3(data, id) ==
  [ id |-> id,
    stage |-> data.stage,
    confidence |-> data.confidence,
    disease |-> OrInfo(DISEASE_DATABASE_V3(data.stage), DISEASE_DATABASE_V3("N0")),
    lesionCount |-> data.lesionCount,
    avgLesionSize |-> data.avgLesionSize,
    severityScore |-> calculateSeverityScore(data.stage, data.lesionCount, data.avgLesionSize),
    timestamp |-> id ]

(***************************************************************************)
(* The apps: initial states                                                *)
(***************************************************************************)
Variants == {"v2", "v3", "local"}

Images == 1..NumImages

\* the decoded 120x120 grid of image k (read by the local-scan App only)
SampleGrid(k) ==
  CASE k = 1 -> [a |-> <<40, 120, 30>>, na |-> 850, b |-> <<100, 120, 40>>, nb |-> 150,
                 c |-> <<200, 200, 200>>]
    [] k = 2 -> [a |-> <<100, 120, 40>>, na |-> 2, b |-> <<200, 200, 200>>, nb |-> 0,
                 c |-> <<200, 200, 200>>]
    [] OTHER -> [a |-> <<40, 120, 30>>, na |-> 1000, b |-> <<200, 200, 200>>, nb |-> 0,
                 c |-> <<200, 200, 200>>]

\* the k-th newest item that an earlier session of the app left in the store
OldItem(v, k) ==
  CASE v = "v2" ->
         newItemV2(finalResultV2(Reply(IF k % 2 = 0 THEN "H0" ELSE "E1", Num(900),
                                       Num(5000), Num(2000)), 0 - k))
    [] v = "v3" ->
         newItemV3(finalResultV3(Reply(IF k % 2 = 0 THEN "H0" ELSE "E1", Num(900),
                                       Num(5000), Num(2000)), 0 - k))
    [] v = "local" -> newItemLocal(performLocalAnalysis(SampleGrid(1), 0 - k))

OldLedger(v, n) == [k \in 1..n |-> OldItem(v, k)]

\* ledger lengths the store holds at start: shortest, one below capacity, full
AppStartLens(cap) == {1, cap - 1, cap}

\* every ledger length up to the capacity
LedgerStartLens(cap) == 1..cap

\* what the store can hold when the app starts
InitialStores(v, lens) == {NoKey} \cup {Stored(OldLedger(v, n)) : n \in lens}

InitApp(everyLength) ==
  /\ variant \in Variants
  /\ storage \in InitialStores(variant, IF everyLength THEN LedgerStartLens(Capacity(variant))
                                                 ELSE AppStartLens(Capacity(variant)))
  /\ mounted = FALSE
  /\ history = <<>>
  /\ selectedImage = 0
  /\ isCameraActive = FALSE
  /\ analyzing = FALSE
  /\ result = null
  /\ inflight = {}
  /\ nextId = 0
  /\ alerts = 0
  /\ log = Reverse([i \in 1..Len(storage.json) |-> storage.json[i].id])
  /\ resultOf = 0
  /\ probe = null
  /\ probeOut = null
  /\ lastKind = "none"
  /\ oracleCalls = 0

\* useEffect(() => { ... }, []) of each App
Mount ==
  /\ ~mounted
  /\ mounted' = TRUE
  /\ history' = loadHistory(storage, history)
  /\ UNCHANGED <<variant, storage, selectedImage, isCameraActive, analyzing, result,
                 inflight, nextId, alerts, log, resultOf, probe, probeOut, lastKind, oracleCalls>>

\* the closure of a handler that is suspended at its await
Request(rid, image, hist, settles) ==
  [rid |-> rid, image |-> image, hist |-> hist, settles |-> settles]

(***************************************************************************)
(* v2 App (src/imageProcessor.ts)                                          *)
(***************************************************************************)
\* startCamera: getUserMedia is granted, or denied and the flag is reset
startCameraV2 ==
  /\ mounted /\ variant = "v2"
  /\ selectedImage = 0 /\ ~isCameraActive
  /\ \E granted \in BOOLEAN : isCameraActive' = granted
  /\ UNCHANGED <<variant, mounted, storage, history, selectedImage, analyzing, result,
                 inflight, nextId, alerts, log, resultOf, probe, probeOut, lastKind, oracleCalls>>

stopCameraV2 ==
  /\ mounted /\ variant = "v2"
  /\ isCameraActive
  /\ isCameraActive' = FALSE
  /\ UNCHANGED <<variant, mounted, storage, history, selectedImage, analyzing, result,
                 inflight, nextId, alerts, log, resultOf, probe, probeOut, lastKind, oracleCalls>>

capturePhotoV2 ==
  /\ mounted /\ variant = "v2"
  /\ isCameraActive
  /\ \E img \in Images : selectedImage' = img
  /\ isCameraActive' = FALSE
  /\ UNCHANGED <<variant, mounted, storage, history, analyzing, result,
                 inflight, nextId, alerts, log, resultOf, probe, probeOut, lastKind, oracleCalls>>

\* the file input's onChange and the reader's onloadend
uploadV2(imgs) ==
  /\ mounted /\ variant = "v2"
  /\ selectedImage = 0 /\ ~isCameraActive
  /\ \E img \in imgs : selectedImage' = img
  /\ UNCHANGED <<variant, mounted, storage, history, isCameraActive, analyzing, result,
                 inflight, nextId, alerts, log, resultOf, probe, probeOut, lastKind, oracleCalls>>

\* the trash button over the preview: shown whenever an image is selected
discardImageV2 ==
  /\ mounted /\ variant = "v2"
  /\ selectedImage # 0 /\ ~isCameraActive
  /\ selectedImage' = 0
  /\ result' = null
  /\ resultOf' = 0
  /\ UNCHANGED <<variant, mounted, storage, history, isCameraActive, analyzing,
                 inflight, nextId, alerts, log, probe, probeOut, lastKind, oracleCalls>>

\* runAnalysis with a run button that stays enabled while analyzing
runAnalysis_NotDisabled(limit) ==
  /\ mounted /\ variant = "v2"
  /\ selectedImage # 0 /\ ~isCameraActive
  /\ result = null
  /\ nextId < limit
  /\ analyzing' = TRUE
  /\ nextId' = nextId + 1
  /\ oracleCalls' = oracleCalls + 1
  /\ inflight' = inflight \cup {Request(nextId + 1, selectedImage, history, TRUE)}
  /\ UNCHANGED <<variant, mounted, storage, history, selectedImage, isCameraActive,
                 result, alerts, log, resultOf, probe, probeOut, lastKind>>

\* runAnalysis up to its await; the button is rendered while !result and is
\* disabled while analyzing
runAnalysis(limit) ==
  /\ mounted /\ variant = "v2"
  /\ selectedImage # 0 /\ ~isCameraActive
  /\ result = null /\ ~analyzing
  /\ nextId < limit
  /\ analyzing' = TRUE
  /\ nextId' = nextId + 1
  /\ oracleCalls' = oracleCalls + 1
  /\ inflight' = inflight \cup {Request(nextId + 1, selectedImage, history, TRUE)}
  /\ UNCHANGED <<variant, mounted, storage, history, selectedImage, isCameraActive,
                 result, alerts, log, resultOf, probe, probeOut, lastKind>>

\* runAnalysis sending the request once more when the call fails
runAnalysisResume_Retry(outcomes) ==
  /\ mounted /\ variant = "v2"
  /\ \E req \in inflight, outcome \in outcomes :
       LET r == analyzePlantImageV2(outcome)
           finalResult == finalResultV2(r.data, req.rid)
           updated == saveToHistoryV2(finalResult, req.hist)
       IN /\ lastKind' = KindOf(outcome)
          /\ IF r.threw
             THEN /\ oracleCalls' = oracleCalls + 1
                  /\ UNCHANGED <<inflight, analyzing, alerts, result, resultOf, history,
                                 storage, log>>
             ELSE /\ inflight' = inflight \ {req}
                  /\ analyzing' = FALSE
                  /\ UNCHANGED oracleCalls
                  /\ IF r.data = null
                     THEN /\ alerts' = alerts + 1
                          /\ UNCHANGED <<result, resultOf, history, storage, log>>
                     ELSE /\ result' = finalResult
                          /\ resultOf' = req.image
                          /\ history' = updated
                          /\ storage' = Stored(updated)
                          /\ log' = Append(log, finalResult.id)
                          /\ UNCHANGED alerts
  /\ UNCHANGED <<variant, mounted, selectedImage, isCameraActive, nextId, probe, probeOut>>

\* runAnalysis from its await on, for the outcome of the oracle call
runAnalysisResume(outcomes) ==
  /\ mounted /\ variant = "v2"
  /\ \E req \in inflight, outcome \in outcomes :
       LET r == analyzePlantImageV2(outcome)
           finalResult == finalResultV2(r.data, req.rid)
           updated == saveToHistoryV2(finalResult, req.hist)
       IN /\ inflight' = inflight \ {req}
          /\ lastKind' = KindOf(outcome)
          /\ analyzing' = FALSE
          /\ IF r.threw \/ r.data = null
             THEN /\ alerts' = alerts + 1
                  /\ UNCHANGED <<result, resultOf, history, storage, log>>
             ELSE /\ result' = finalResult
                  /\ resultOf' = req.image
                  /\ history' = updated
                  /\ storage' = Stored(updated)
                  /\ log' = Append(log, finalResult.id)
                  /\ UNCHANGED alerts
  /\ UNCHANGED <<variant, mounted, selectedImage, isCameraActive, nextId, probe, probeOut, oracleCalls>>

(***************************************************************************)
(* v3 App (src/index.tsx)                                                  *)
(***************************************************************************)
\* startCamera: also bound to the navigation bar, so always available
startCameraV3 ==
  /\ mounted /\ variant = "v3"
  /\ \E granted \in BOOLEAN : isCameraActive' = granted
  /\ UNCHANGED <<variant, mounted, storage, history, selectedImage, analyzing, result,
                 inflight, nextId, alerts, log, resultOf, probe, probeOut, lastKind, oracleCalls>>

\* the X button of the camera view
closeCameraV3 ==
  /\ mounted /\ variant = "v3"
  /\ isCameraActive
  /\ isCameraActive' = FALSE
  /\ UNCHANGED <<variant, mounted, storage, history, selectedImage, analyzing, result,
                 inflight, nextId, alerts, log, resultOf, probe, probeOut, lastKind, oracleCalls>>

capturePhotoV3 ==
  /\ mounted /\ variant = "v3"
  /\ isCameraActive
  /\ \E img \in Images : selectedImage' = img
  /\ isCameraActive' = FALSE
  /\ UNCHANGED <<variant, mounted, storage, history, analyzing, result,
                 inflight, nextId, alerts, log, resultOf, probe, probeOut, lastKind, oracleCalls>>

uploadV3(imgs) ==
  /\ mounted /\ variant = "v3"
  /\ selectedImage = 0 /\ ~isCameraActive
  /\ \E img \in imgs : selectedImage' = img
  /\ UNCHANGED <<variant, mounted, storage, history, isCameraActive, analyzing, result,
                 inflight, nextId, alerts, log, resultOf, probe, probeOut, lastKind, oracleCalls>>

\* resetScanner: the trash button (while !result && !analyzing) and the
\* "Start New Scan" button of the result panel
resetScanner ==
  /\ mounted /\ variant = "v3"
  /\ selectedImage # 0 /\ ~isCameraActive
  /\ (result = null /\ ~analyzing) \/ result # null
  /\ selectedImage' = 0
  /\ result' = null
  /\ resultOf' = 0
  /\ isCameraActive' = FALSE
  /\ UNCHANGED <<variant, mounted, storage, history, analyzing,
                 inflight, nextId, alerts, log, probe, probeOut, lastKind, oracleCalls>>

\* handleAnalysis with a run button that stays enabled while analyzing
handleAnalysis_NotDisabled(limit) ==
  /\ mounted /\ variant = "v3"
  /\ selectedImage # 0 /\ ~isCameraActive
  /\ result = null
  /\ nextId < limit
  /\ analyzing' = TRUE
  /\ nextId' = nextId + 1
  /\ oracleCalls' = oracleCalls + 1
  /\ inflight' = inflight \cup {Request(nextId + 1, selectedImage, history, TRUE)}
  /\ UNCHANGED <<variant, mounted, storage, history, selectedImage, isCameraActive,
                 result, alerts, log, resultOf, probe, probeOut, lastKind>>

\* handleAnalysis up to its await
handleAnalysis(limit) ==
  /\ mounted /\ variant = "v3"
  /\ selectedImage # 0 /\ ~isCameraActive
  /\ result = null /\ ~analyzing
  /\ nextId < limit
  /\ analyzing' = TRUE
  /\ nextId' = nextId + 1
  /\ oracleCalls' = oracleCalls + 1
  /\ inflight' = inflight \cup {Request(nextId + 1, selectedImage, history, TRUE)}
  /\ UNCHANGED <<variant, mounted, storage, history, selectedImage, isCameraActive,
                 result, alerts, log, resultOf, probe, probeOut, lastKind>>

\* handleAnalysis resetting analyzing at the end of the try block only
handleAnalysisResume_NoFinally(outcomes) ==
  /\ mounted /\ variant = "v3"
  /\ \E req \in inflight, outcome \in outcomes :
       LET r == analyzePlantImageV3(outcome)
           finalResult == finalResultV3(r.data, req.rid)
           updated == saveToHistoryV3(finalResult, req.hist)
       IN /\ inflight' = inflight \ {req}
          /\ lastKind' = KindOf(outcome)
          /\ IF r.threw \/ r.data = null
             THEN /\ alerts' = alerts + 1
                  /\ UNCHANGED <<analyzing, result, resultOf, history, storage, log>>
             ELSE /\ result' = finalResult
                  /\ resultOf' = req.image
                  /\ history' = updated
                  /\ storage' = Stored(updated)
                  /\ log' = Append(log, finalResult.id)
                  /\ analyzing' = FALSE
                  /\ UNCHANGED alerts
  /\ UNCHANGED <<variant, mounted, selectedImage, isCameraActive, nextId, probe, probeOut,
                 oracleCalls>>

\* handleAnalysis from its await on
handleAnalysisResume(outcomes) ==
  /\ mounted /\ variant = "v3"
  /\ \E req \in inflight, outcome \in outcomes :
       LET r == analyzePlantImageV3(outcome)
           finalResult == finalResultV3(r.data, req.rid)
           updated == saveToHistoryV3(finalResult, req.hist)
       IN /\ inflight' = inflight \ {req}
          /\ lastKind' = KindOf(outcome)
          /\ analyzing' = FALSE
          /\ IF r.threw \/ r.data = null
             THEN /\ alerts' = alerts + 1
                  /\ UNCHANGED <<result, resultOf, history, storage, log>>
             ELSE /\ result' = finalResult
                  /\ resultOf' = req.image
                  /\ history' = updated
                  /\ storage' = Stored(updated)
                  /\ log' = Append(log, finalResult.id)
                  /\ UNCHANGED alerts
  /\ UNCHANGED <<variant, mounted, selectedImage, isCameraActive, nextId, probe, probeOut, oracleCalls>>

\* Clear All emptying the list and leaving the stored copy in place
clearAllV3_KeepsStore ==
  /\ mounted /\ variant = "v3"
  /\ history' = <<>>
  /\ UNCHANGED <<variant, mounted, storage, selectedImage, isCameraActive, analyzing, result,
                 inflight, nextId, alerts, log, resultOf, probe, probeOut, lastKind,
                 oracleCalls>>

\* the Clear All button of the history tab
clearAllV3 ==
  /\ mounted /\ variant = "v3"
  /\ storage' = NoKey
  /\ history' = <<>>
  /\ UNCHANGED <<variant, mounted, selectedImage, isCameraActive, analyzing, result,
                 inflight, nextId, alerts, log, resultOf, probe, probeOut, lastKind, oracleCalls>>

(***************************************************************************)
(* local-scan App (src/constants.tsx)                                      *)
(***************************************************************************)
startCameraLocal ==
  /\ mounted /\ variant = "local"
  /\ \E granted \in BOOLEAN : isCameraActive' = granted
  /\ UNCHANGED <<variant, mounted, storage, history, selectedImage, analyzing, result,
                 inflight, nextId, alerts, log, resultOf, probe, probeOut, lastKind, oracleCalls>>

closeCameraLocal ==
  /\ mounted /\ variant = "local"
  /\ isCameraActive
  /\ isCameraActive' = FALSE
  /\ UNCHANGED <<variant, mounted, storage, history, selectedImage, analyzing, result,
                 inflight, nextId, alerts, log, resultOf, probe, probeOut, lastKind, oracleCalls>>

capturePhotoLocal ==
  /\ mounted /\ variant = "local"
  /\ isCameraActive
  /\ \E img \in Images : selectedImage' = img
  /\ isCameraActive' = FALSE
  /\ UNCHANGED <<variant, mounted, storage, history, analyzing, result,
                 inflight, nextId, alerts, log, resultOf, probe, probeOut, lastKind, oracleCalls>>

uploadLocal(imgs) ==
  /\ mounted /\ variant = "local"
  /\ selectedImage = 0 /\ ~isCameraActive
  /\ \E img \in imgs : selectedImage' = img
  /\ UNCHANGED <<variant, mounted, storage, history, isCameraActive, analyzing, result,
                 inflight, nextId, alerts, log, resultOf, probe, probeOut, lastKind, oracleCalls>>

\* the trash button: setSelectedImage(null), while !result && !analyzing
discardImageLocal ==
  /\ mounted /\ variant = "local"
  /\ selectedImage # 0 /\ ~isCameraActive
  /\ result = null /\ ~analyzing
  /\ selectedImage' = 0
  /\ UNCHANGED <<variant, mounted, storage, history, isCameraActive, analyzing, result,
                 inflight, nextId, alerts, log, resultOf, probe, probeOut, lastKind, oracleCalls>>

\* the "New Analysis" button of the result panel
newAnalysisLocal ==
  /\ mounted /\ variant = "local"
  /\ selectedImage # 0 /\ ~isCameraActive
  /\ result # null
  /\ selectedImage' = 0
  /\ result' = null
  /\ resultOf' = 0
  /\ UNCHANGED <<variant, mounted, storage, history, isCameraActive, analyzing,
                 inflight, nextId, alerts, log, probe, probeOut, lastKind, oracleCalls>>

\* runLocalScan up to its await.  The promise of performLocalAnalysis settles
\* only if the image decodes (img.onload) and the canvas has a 2D context.
runLocalScan(limit) ==
  /\ mounted /\ variant = "local"
  /\ selectedImage # 0 /\ ~isCameraActive
  /\ result = null /\ ~analyzing
  /\ nextId < limit
  /\ analyzing' = TRUE
  /\ nextId' = nextId + 1
  /\ \E settles \in BOOLEAN :
       inflight' = inflight \cup {Request(nextId + 1, selectedImage, history, settles)}
  /\ UNCHANGED <<variant, mounted, storage, history, selectedImage, isCameraActive,
                 result, alerts, log, resultOf, probe, probeOut, lastKind, oracleCalls>>

\* runLocalScan appending every result
recordsDiagnosis_Always(data) == TRUE

\* the guard of the append in runLocalScan: if (data.stage !== 'N0')
recordsDiagnosis(data) == data.stage # "N0"

\* runLocalScan from its await on
runLocalScanResume ==
  /\ mounted /\ variant = "local"
  /\ \E req \in inflight :
       LET data == performLocalAnalysis(SampleGrid(req.image), req.rid)
           updated == saveToHistoryLocal(data, req.hist)
       IN /\ req.settles
          /\ inflight' = inflight \ {req}
          /\ lastKind' = "local"
          /\ result' = data
          /\ resultOf' = req.image
          /\ IF recordsDiagnosis(data)
             THEN /\ history' = updated
                  /\ storage' = Stored(updated)
                  /\ log' = Append(log, data.id)
             ELSE UNCHANGED <<history, storage, log>>
          /\ analyzing' = FALSE
  /\ UNCHANGED <<variant, mounted, selectedImage, isCameraActive, nextId, alerts,
                 probe, probeOut, oracleCalls>>

clearAllLocal ==
  /\ mounted /\ variant = "local"
  /\ storage' = NoKey
  /\ history' = <<>>
  /\ UNCHANGED <<variant, mounted, selectedImage, isCameraActive, analyzing, result,
                 inflight, nextId, alerts, log, resultOf, probe, probeOut, lastKind, oracleCalls>>

(***************************************************************************)
(* Specification of the three apps                                         *)
(***************************************************************************)
Init == InitApp(FALSE)

Next ==
  \/ Mount
  \/ startCameraV2 \/ stopCameraV2 \/ capturePhotoV2 \/ uploadV2(Images) \/ discardImageV2
  \/ runAnalysis(MaxRequests) \/ runAnalysisResume(OracleOutcomes)
  \/ startCameraV3 \/ closeCameraV3 \/ capturePhotoV3 \/ uploadV3(Images) \/ resetScanner
  \/ handleAnalysis(MaxRequests) \/ handleAnalysisResume(OracleOutcomes) \/ clearAllV3
  \/ startCameraLocal \/ closeCameraLocal \/ capturePhotoLocal \/ uploadLocal(Images)
  \/ discardImageLocal \/ newAnalysisLocal
  \/ runLocalScan(MaxRequests) \/ runLocalScanResume \/ clearAllLocal

Spec == Init /\ [][Next]_vars

TypeOK ==
  /\ variant \in Variants
  /\ mounted \in BOOLEAN
  /\ selectedImage \in 0..NumImages
  /\ isCameraActive \in BOOLEAN
  /\ analyzing \in BOOLEAN
  /\ nextId \in Nat
  /\ alerts \in Nat

(***************************************************************************)
(* Specification of runs of successful diagnoses (no Clear All, no failing *)
(* call, no non-diagnostic image): the ledger under successive appends     *)
(***************************************************************************)
\* a complete response of the oracle
GoodOutcomes == {[kind |-> "object", data |-> Reply("E2", Num(950), Num(12000), Num(2500))]}

\* an image that the local classifier stages as a disease stage
DiagnosticImages == {1}

InitLedger == InitApp(TRUE)

NextLedger ==
  \/ Mount
  \/ uploadV2(DiagnosticImages) \/ discardImageV2
  \/ runAnalysis(MaxAppends) \/ runAnalysisResume(GoodOutcomes)
  \/ uploadV3(DiagnosticImages) \/ resetScanner
  \/ handleAnalysis(MaxAppends) \/ handleAnalysisResume(GoodOutcomes)
  \/ uploadLocal(DiagnosticImages) \/ newAnalysisLocal
  \/ runLocalScan(MaxAppends) \/ runLocalScanResume

SpecLedger == InitLedger /\ [][NextLedger]_vars

(***************************************************************************)
(* Specification of the severity scorers as pure functions                 *)
(***************************************************************************)
LesionCounts == {Undef} \cup {Num(1000 * k) : k \in (0 - MinusRange)..MaxLesionCount}

\* avgLesionSize is sampled every 2.5 mm
LesionSizes == {Undef} \cup {Num(2500 * k) : k \in (0 - MinusRange)..MaxSizeSteps}

ScoreInputs ==
  { [stage |-> st, lesionCount |-> lc, avgLesionSize |-> sz] :
      st \in AnyStage, lc \in LesionCounts, sz \in LesionSizes }

\* the app is not running
AppIdle ==
  /\ variant = "v2"
  /\ storage = NoKey
  /\ mounted = FALSE
  /\ history = <<>>
  /\ selectedImage = 0
  /\ isCameraActive = FALSE
  /\ analyzing = FALSE
  /\ result = null
  /\ inflight = {}
  /\ nextId = 0
  /\ alerts = 0
  /\ log = <<>>
  /\ resultOf = 0
  /\ lastKind = "none"
  /\ oracleCalls = 0

InitScore ==
  /\ AppIdle
  /\ probe \in ScoreInputs
  /\ probeOut = null

applyCalculateSeverity ==
  /\ probe # null /\ probeOut = null
  /\ probeOut' = [fn |-> "calculateSeverity",
                  score |-> calculateSeverity(probe.stage, probe.lesionCount,
                                              probe.avgLesionSize)]
  /\ UNCHANGED <<appVars, lastKind, probe>>

applyCalculateSeverityScore ==
  /\ probe # null /\ probeOut = null
  /\ probeOut' = [fn |-> "calculateSeverityScore",
                  score |-> calculateSeverityScore(probe.stage, probe.lesionCount,
                                                   probe.avgLesionSize)]
  /\ UNCHANGED <<appVars, lastKind, probe>>

NextScore == applyCalculateSeverity \/ applyCalculateSeverityScore

SpecScore == InitScore /\ [][NextScore]_vars

(***************************************************************************)
(* Specification of the local classifier as a pure function of the grid    *)
(***************************************************************************)
InitLocal ==
  /\ AppIdle
  /\ probe \in Grids
  /\ probeOut = null

applyPerformLocalAnalysis ==
  /\ probe # null /\ probeOut = null
  /\ probeOut' = performLocalAnalysis(probe, 1)
  /\ UNCHANGED <<appVars, lastKind, probe>>

NextLocal == applyPerformLocalAnalysis

SpecLocal == InitLocal /\ [][NextLocal]_vars

(***************************************************************************)
(* Image quality analyzer (src/imageProcessor.ts) as a pure function       *)
(***************************************************************************)
\* A decoded width x height buffer is modelled by two regions of uniform
\* colour: na pixels of colour a and the rest of colour b.
QualityPalette ==
  { <<0, 0, 0>>,          \* black
    <<49, 50, 50>>,       \* brightness just below 50
    <<50, 50, 50>>,       \* brightness exactly 50
    <<79, 80, 80>>,       \* brightness just below 80
    <<80, 80, 80>>,       \* brightness exactly 80
    <<200, 200, 200>>,    \* brightness exactly 200
    <<200, 200, 201>>,    \* brightness just above 200
    <<255, 255, 255>> }   \* white

QualitySides == {10, 399, 400}

\* region sizes around three tenths of n pixels
ShareSizes(n) == {0, (3 * n) \div 10, (3 * n) \div 10 + 1, n}

QualityBuffers ==
  UNION { { [a |-> ca, na |-> x, b |-> cb, width |-> w, height |-> h] :
              ca \in QualityPalette, cb \in QualityPalette, x \in ShareSizes(w * h) } :
          w \in QualitySides, h \in QualitySides }

\* data.length / 4
pixelCount(buf) == buf.width * buf.height

\* three times the brightness of a pixel: brightness = (r + g + b) / 3
brightness3(px) == px[1] + px[2] + px[3]

\* the loop: three times totalBrightness, darkPixels and brightPixels at its end
totalBrightness3(buf) ==
  buf.na * brightness3(buf.a) + (pixelCount(buf) - buf.na) * brightness3(buf.b)

darkPixels(buf) ==
    (IF brightness3(buf.a) < 150 THEN buf.na ELSE 0)
  + (IF brightness3(buf.b) < 150 THEN pixelCount(buf) - buf.na ELSE 0)

brightPixels(buf) ==
    (IF brightness3(buf.a) > 600 THEN buf.na ELSE 0)
  + (IF brightness3(buf.b) > 600 THEN pixelCount(buf) - buf.na ELSE 0)

\* analyzeImageQuality with isLowRes requiring both sides to be short
analyzeImageQuality_BothSides(buf) ==
  LET n == pixelCount(buf)
      total3 == totalBrightness3(buf)
  IN [ avgBrightness |-> Num(1000 * (total3 \div (3 * n))
                              + (1000 * (total3 % (3 * n))) \div (3 * n)),
       isTooDark |-> total3 < 80 * 3 * n,
       isTooBright |-> total3 > 200 * 3 * n,
       hasShadows |-> 10 * darkPixels(buf) > 3 * n,
       hasOverexposure |-> 10 * brightPixels(buf) > 3 * n,
       resolution |-> [width |-> buf.width, height |-> buf.height],
       isLowRes |-> buf.width < 400 /\ buf.height < 400 ]

\* the quality record resolved for a decoded buffer (avgBrightness in
\* thousandths; avg < 80 is total < 80 * n, ratio > 0.3 is 10 * count > 3 * n)
analyzeImageQuality(buf) ==
  LET n == pixelCount(buf)
      total3 == totalBrightness3(buf)
  IN [ avgBrightness |-> Num(1000 * (total3 \div (3 * n))
                              + (1000 * (total3 % (3 * n))) \div (3 * n)),
       isTooDark |-> total3 < 80 * 3 * n,
       isTooBright |-> total3 > 200 * 3 * n,
       hasShadows |-> 10 * darkPixels(buf) > 3 * n,
       hasOverexposure |-> 10 * brightPixels(buf) > 3 * n,
       resolution |-> [width |-> buf.width, height |-> buf.height],
       isLowRes |-> buf.width < 400 \/ buf.height < 400 ]

\* resolve({} as ImageQuality): the canvas has no 2D context, no buffer is read
EmptyQuality == [empty |-> TRUE]

InitQuality ==
  /\ AppIdle
  /\ probe \in QualityBuffers
  /\ probeOut = null

applyAnalyzeImageQuality ==
  /\ probe # null /\ probeOut = null
  /\ probeOut' = analyzeImageQuality(probe)
  /\ UNCHANGED <<appVars, lastKind, probe>>

applyAnalyzeImageQualityNoContext ==
  /\ probe # null /\ probeOut = null
  /\ probeOut' = EmptyQuality
  /\ UNCHANGED <<appVars, lastKind, probe>>

NextQuality == applyAnalyzeImageQuality \/ applyAnalyzeImageQualityNoContext

SpecQuality == InitQuality /\ [][NextQuality]_vars

(***************************************************************************)
(* Properties                                                              *)
(***************************************************************************)
Ids(items) == [i \in 1..Len(items) |-> items[i].id]

\* a step in which a pending classifier call settles
Settles == Cardinality(inflight') < Cardinality(inflight)

\* C1: in every reachable state of each app the ledger, in memory and in the
\* store, holds at most the capacity of the variant (20, 10, 15)
C1_LedgerWithinCapacity ==
  /\ Len(history) <= Capacity(variant)
  /\ Len(storage.json) <= Capacity(variant)

\* an append onto a full ledger has happened
C1_Witness ==
  /\ Len(history) = Capacity(variant)
  /\ Len(log) > Capacity(variant)
  /\ history[1].id > 0

\* C2: after successive successful appends the ledger lists the appended
\* items newest first, and exactly the oldest ones are gone once the total
\* exceeds the capacity
C2_NewestFirstOldestEvicted ==
  mounted => Ids(history) = Slice(Reverse(log), Capacity(variant))

\* 25 appends to the empty ledger of the v2 App: 20 items, ids 25 down to 6
C2_Witness ==
  /\ variant = "v2"
  /\ log = [i \in 1..25 |-> i]
  /\ Len(history) = 20
  /\ history[1].id = 25
  /\ history[20].id = 6

\* C3: a diagnosis request whose classifier call rejects, or whose response
\* cannot be parsed or assembled, leaves history and the store as they were
C3_FailureLeavesLedger ==
  [][(Settles /\ lastKind' \in {"reject", "badjson", "null"})
       => (history' = history /\ storage' = storage)]_vars

\* a request failed while the ledger held items
C3_Witness ==
  /\ lastKind \in {"reject", "badjson", "null"}
  /\ alerts > 0
  /\ Len(history) > 0
  /\ storage.present

\* C4: a response that parses as JSON but lacks a required field is rejected:
\* the handler reports an error, no result is set and nothing is appended
C4_MissingFieldRejected ==
  [][(Settles /\ lastKind' = "partial")
       => (alerts' = alerts + 1 /\ result' = result
           /\ history' = history /\ storage' = storage)]_vars

\* C5 as claimed: no ledger item of any app has stage N0
C5_NoN0InAnyLedger ==
  \A i \in 1..Len(history) : itemStage(history[i]) # "N0"

\* no ledger item of the local-scan App has stage N0, in memory or in the store
C5_NoN0InLocalLedger ==
  variant = "local" =>
    /\ \A i \in 1..Len(history) : itemStage(history[i]) # "N0"
    /\ \A i \in 1..Len(storage.json) : itemStage(storage.json[i]) # "N0"

\* C5 as amended, both halves: the local-scan App never holds an N0 item,
\* and in the remote apps every diagnosis that is assembled is appended at
\* the head of the ledger, whatever its stage
C5_N0SkippedOnlyLocally ==
  /\ []C5_NoN0InLocalLedger
  /\ [][(Settles /\ variant # "local" /\ lastKind' \in {"object", "partial"})
          => (Len(history') > 0 /\ history'[1].id = result'.id
              /\ itemStage(history'[1]) = result'.stage)]_vars

\* the local-scan App shows an N0 result and has not appended it
C5_Witness ==
  /\ variant = "local"
  /\ result # null
  /\ result.stage = "N0"
  /\ lastKind = "local"

\* a score string that denotes a number within [0, 100]
InRange(s) == ~s.nan /\ ScoreTenths(s) >= 0 /\ ScoreTenths(s) <= 1000

\* C6: for all inputs, missing and negative ones included, both scorers
\* return a number within [0, 100]
C6_ScoreInRange == probeOut # null => InRange(probeOut.score)

\* C7: for stage H0 or N0 with lesionCount 0 and any avgLesionSize both
\* scorers return "0.0"
C7_HealthyScoresZero ==
  (probeOut # null /\ probe.stage \in {"H0", "N0"} /\ probe.lesionCount = Num(0))
    => probeOut.score = ZeroString

\* C8: a result of the local classifier with stage H0 or N0 and lesionCount 0
\* has severityScore "0.0"
C8_LocalHealthyScoresZero ==
  (probeOut # null /\ probeOut.stage \in {"H0", "N0"} /\ probeOut.lesionCount = Num(0))
    => probeOut.severityScore = ZeroString

\* the scorer that produced probeOut, applied to other arguments
Rescore(lc, sz) ==
  IF probeOut.fn = "calculateSeverity"
  THEN calculateSeverity(probe.stage, lc, sz)
  ELSE calculateSeverityScore(probe.stage, lc, sz)

\* score a is a number below the number b
Lower(a, b) == ~a.nan /\ ~b.nan /\ ScoreTenths(a) < ScoreTenths(b)

NonNegative(x) == IsNum(x) /\ x.v >= 0

\* C9: for a fixed stage and non-negative arguments, raising lesionCount or
\* avgLesionSize never lowers the score of either scorer
C9_ScoreMonotone ==
  (probeOut # null /\ NonNegative(probe.lesionCount) /\ NonNegative(probe.avgLesionSize))
    => /\ \A lc \in LesionCounts :
            (IsNum(lc) /\ lc.v >= probe.lesionCount.v)
              => ~Lower(Rescore(lc, probe.avgLesionSize), probeOut.score)
       /\ \A sz \in LesionSizes :
            (IsNum(sz) /\ sz.v >= probe.avgLesionSize.v)
              => ~Lower(Rescore(probe.lesionCount, sz), probeOut.score)

\* calculateSeverity at an E2 input strictly between zero and the cap of 45,
\* from which a larger lesionCount reaches the cap
C9_Witness ==
  /\ probeOut # null
  /\ probeOut.fn = "calculateSeverity"
  /\ probe.stage = "E2"
  /\ probe.lesionCount = Num(6000)
  /\ probe.avgLesionSize = Num(5000)
  /\ probeOut.score = FixedOf(24000, 1000)
  /\ Rescore(Num(12000), probe.avgLesionSize) = FixedOf(45000, 1000)

\* the knowledge base of the running app
DiseaseDatabase(v, key) ==
  CASE v = "v2" -> DISEASE_DATABASE_V2(key)
    [] v = "v3" -> DISEASE_DATABASE_V3(key)
    [] v = "local" -> DISEASE_DATABASE_LOCAL(key)

\* C10: the DiseaseInfo of every result is the entry of its stage for H0, E1,
\* E2, E3, N0 and the N0 entry for every other stage value
C10_DiseaseInfoResolved ==
  result # null =>
    result.disease = IF result.stage \in DiseaseStage
                     THEN DiseaseDatabase(variant, result.stage)
                     ELSE DiseaseDatabase(variant, "N0")

\* the stage the area gate and the ratio bands assign to the two counters
BandStage(leaf, necrotic) ==
  CASE leaf < 800 -> "N0"
    [] leaf >= 800 /\ 100 * necrotic > 22 * leaf -> "E3"
    [] leaf >= 800 /\ 100 * necrotic <= 22 * leaf /\ 100 * necrotic > 10 * leaf -> "E2"
    [] leaf >= 800 /\ 100 * necrotic <= 10 * leaf /\ 100 * necrotic > 2 * leaf -> "E1"
    [] OTHER -> "H0"

\* C11: the local classifier stages a grid by the area gate first (fewer than
\* 800 leaf pixels is N0 whatever the colours) and then by the ratio bands
\* > 0.22 E3, > 0.10 E2, > 0.02 E1, else H0
C11_StageByGateThenBands ==
  probeOut # null =>
    probeOut.stage = BandStage(leafPixels(probe), necroticPixels(probe))

\* 1000 leaf pixels of which 150 are necrotic: ratio 0.15, stage E2
C11_Witness ==
  /\ probeOut # null
  /\ leafPixels(probe) = 1000
  /\ necroticPixels(probe) = 150
  /\ probeOut.stage = "E2"

\* every pixel of the grid is leaf tissue and none is necrotic
AllHealthyLeaf(grid) ==
  /\ grid.na > 0 => (isGreen(grid.a) /\ ~isNecrotic(grid.a))
  /\ grid.nb > 0 => (isGreen(grid.b) /\ ~isNecrotic(grid.b))
  /\ GridPixels - grid.na - grid.nb > 0 => (isGreen(grid.c) /\ ~isNecrotic(grid.c))

\* C12: a grid of green-dominant leaf pixels only, none of them necrotic, is
\* staged H0 with severityScore "0.0"
C12_AllGreenIsHealthy ==
  (probeOut # null /\ AllHealthyLeaf(probe))
    => (probeOut.stage = "H0" /\ probeOut.severityScore = ZeroString)

\* the grid of 14400 saturated green pixels was classified
C12_Witness ==
  /\ probeOut # null
  /\ AllHealthyLeaf(probe)
  /\ leafPixels(probe) = GridPixels
  /\ probeOut.stage = "H0"
  /\ probeOut.severityScore = ZeroString

\* a confidence that is a number within [0, 1]
InUnitInterval(c) == IsNum(c) /\ c.v >= 0 /\ c.v <= 1000

\* C14: the confidence of the shown result, and of every ledger item that
\* records one, is a number within [0, 1], whatever the oracle answered
C14_ConfidenceInUnitInterval ==
  /\ result # null => InUnitInterval(result.confidence)
  /\ \A i \in 1..Len(history) :
       "confidence" \in DOMAIN history[i] => InUnitInterval(history[i].confidence)

\* a step in which a settling request hands its result to saveToHistory
Commits == Settles /\ Len(log') = Len(log) + 1

\* C15: a request whose image the user discarded while the call was pending
\* is aborted: when its call settles nothing is appended to the ledger
C15_CancelledNeverAppends ==
  [][(Settles /\ selectedImage = 0) => (history' = history /\ storage' = storage)]_vars

C17_OneCallNoRetry ==
  /\ [](oracleCalls = IF variant = "local" THEN 0 ELSE nextId)
  /\ [][(Settles /\ lastKind' \in {"reject", "badjson"})
          => (alerts' = alerts + 1 /\ result' = result /\ oracleCalls' = oracleCalls
              /\ nextId' = nextId)]_vars

\* the only request of a remote app failed after its single call
C17_Witness ==
  /\ variant # "local"
  /\ lastKind \in {"reject", "badjson"}
  /\ nextId = 1
  /\ oracleCalls = 1
  /\ alerts = 1
  /\ inflight = {}
  /\ result = null

\* C18: every pending classification can complete, with a result or with an
\* error: while the app is analyzing, a request is pending whose promise settles
C18_PendingRequestCompletes ==
  analyzing => \E req \in inflight : req.settles

\* C19: the item a commit puts at the head of the ledger carries the id,
\* timestamp, stage, disease name, confidence and severity score of the result
C19_ItemIsProjection ==
  [][Commits =>
       /\ Len(history') > 0
       /\ history'[1].id = result'.id
       /\ history'[1].timestamp = result'.timestamp
       /\ itemStage(history'[1]) = result'.stage
       /\ history'[1].diseaseName = result'.disease.name
       /\ itemConfidence(history'[1]) = result'.confidence
       /\ history'[1].severityScore = result'.severityScore]_vars

\* what reading the members of a ledger item yields
ItemView(item) ==
  [ id |-> item.id, timestamp |-> item.timestamp, stage |-> itemStage(item),
    diseaseName |-> item.diseaseName, confidence |-> itemConfidence(item),
    severityScore |-> item.severityScore ]

Views(items) == [i \in 1..Len(items) |-> ItemView(items[i])]

\* C20: once the ledger was loaded, what a reload would read from the store
\* is the in-memory ledger, item by item and in order, within the capacity;
\* the key is absent only while the ledger is empty
C20_StoreMirrorsLedger ==
  mounted =>
    /\ Views(loadHistory(storage, <<>>)) = Views(history)
    /\ Len(storage.json) <= Capacity(variant)
    /\ ~storage.present => history = <<>>

\* the v3 App loaded a stored ledger, appended, was cleared and appended again
C20_Witness ==
  /\ variant = "v3"
  /\ mounted
  /\ Len(log) >= 3
  /\ storage.present
  /\ Len(storage.json) = 1
  /\ Len(history) = 1
  /\ history[1].id = 2

\* C21: a commit onto a ledger that is empty (never filled, or emptied by
\* Clear All) leaves exactly the committed item, in memory and in the store:
\* items cleared while the request was pending do not come back
C21_ClearedItemsStayCleared ==
  [][(Commits /\ history = <<>>)
       => (Len(history') = 1 /\ Len(storage'.json) = 1)]_vars

\* C22: a result shown while an image is selected was computed from that image
C22_ResultOfSelectedImage ==
  (result # null /\ selectedImage # 0) => resultOf = selectedImage

\* a step in which an analysis starts
Starts == nextId' = nextId + 1

\* C23: at most one classification is pending at any time, analyzing is true
\* exactly while one is pending, and an analysis starts only while analyzing
\* is false and no result is shown
C23_AtMostOneInFlight ==
  /\ [](Cardinality(inflight) <= 1 /\ (analyzing <=> inflight # {}))
  /\ [][Starts => (~analyzing /\ result = null /\ inflight = {}
                    /\ analyzing' /\ Cardinality(inflight') = 1)]_vars

\* the second analysis of a session is pending after the first has settled
C23_Witness ==
  /\ nextId = 2
  /\ analyzing
  /\ Cardinality(inflight) = 1
  /\ \A req \in inflight : req.rid = 2
  /\ lastKind # "none"

\* C24: in the remote apps the step that settles a request sets analyzing to
\* false, after a result and after a failure alike, and after a failure the
\* shown result is the one shown before
C24_AnalyzingReset ==
  [][(Settles /\ variant # "local")
       => /\ analyzing' = FALSE
          /\ lastKind' \in {"reject", "badjson", "null"} => result' = result]_vars

\* a remote app is idle again after a success followed by a failure
C24_Witness ==
  /\ variant # "local"
  /\ nextId = 2
  /\ Len(log) > 0 /\ log[Len(log)] = 1
  /\ lastKind \in {"reject", "badjson", "null"}
  /\ alerts = 1
  /\ ~analyzing
  /\ inflight = {}

\* the pixels of the buffer whose brightness, the mean of R, G and B,
\* satisfies a test given on three times the brightness
CountBelow(buf, limit3) ==
    (IF buf.a[1] + buf.a[2] + buf.a[3] < limit3 THEN buf.na ELSE 0)
  + (IF buf.b[1] + buf.b[2] + buf.b[3] < limit3 THEN buf.width * buf.height - buf.na ELSE 0)

CountAbove(buf, limit3) ==
    (IF buf.a[1] + buf.a[2] + buf.a[3] > limit3 THEN buf.na ELSE 0)
  + (IF buf.b[1] + buf.b[2] + buf.b[3] > limit3 THEN buf.width * buf.height - buf.na ELSE 0)

\* three times the sum of the brightness of all pixels
BrightnessSum3(buf) ==
    buf.na * (buf.a[1] + buf.a[2] + buf.a[3])
  + (buf.width * buf.height - buf.na) * (buf.b[1] + buf.b[2] + buf.b[3])

\* C25: for every buffer that was read, isTooDark iff the average brightness
\* is below 80, isTooBright iff it is above 200, hasShadows iff more than 0.3
\* of the pixels are darker than 50, hasOverexposure iff more than 0.3 are
\* brighter than 200, isLowRes iff the width or the height is below 400
C25_QualityFlags ==
  (probeOut # null /\ probeOut # EmptyQuality) =>
    LET n == probe.width * probe.height
    IN /\ probeOut.isTooDark <=> (BrightnessSum3(probe) < 3 * 80 * n)
       /\ probeOut.isTooBright <=> (BrightnessSum3(probe) > 3 * 200 * n)
       /\ probeOut.hasShadows <=> (10 * CountBelow(probe, 3 * 50) > 3 * n)
       /\ probeOut.hasOverexposure <=> (10 * CountAbove(probe, 3 * 200) > 3 * n)
       /\ probeOut.isLowRes <=> (probe.width < 400 \/ probe.height < 400)

\* a 399 x 400 buffer of which exactly three tenths are black and the rest
\* white: no shadows flagged, overexposed, low resolution
C25_Witness ==
  /\ probeOut # null /\ probeOut # EmptyQuality
  /\ probe.width = 399 /\ probe.height = 400
  /\ probe.a = <<0, 0, 0>> /\ probe.b = <<255, 255, 255>>
  /\ 10 * probe.na = 3 * 399 * 400
  /\ ~probeOut.hasShadows
  /\ probeOut.hasOverexposure
  /\ probeOut.isLowRes
  /\ ~probeOut.isTooDark

\* the factor and the cap of a disease stage, in thousandths
StageFactor(stage) == CASE stage = "E1" -> 200 [] stage = "E2" -> 800 [] stage = "E3" -> 2000

StageCap(stage) == CASE stage = "E1" -> 15000 [] stage = "E2" -> 45000 [] stage = "E3" -> 100000

\* C26: for non-negative arguments calculateSeverity returns
\* min(lesionCount * avgLesionSize * factor, cap) with one fraction digit:
\* 0 for H0 and N0, at most 15 for E1, 45 for E2 and 100 for E3
C26_PerStageCap ==
  (/\ probeOut # null
   /\ probeOut.fn = "calculateSeverity"
   /\ probe.stage \in DiseaseStage
   /\ NonNegative(probe.lesionCount) /\ NonNegative(probe.avgLesionSize))
    => IF probe.stage \in {"H0", "N0"}
       THEN probeOut.score = ZeroString
       ELSE LET area == (probe.lesionCount.v * probe.avgLesionSize.v) \div 1000
                raw == (area * StageFactor(probe.stage)) \div 1000
                capped == IF raw <= StageCap(probe.stage) THEN raw ELSE StageCap(probe.stage)
            IN /\ probeOut.score = FixedOf(capped, 1000)
               /\ ~probeOut.score.nan
               /\ ScoreTenths(probeOut.score) * 100 <= StageCap(probe.stage)

\* calculateSeverity('E1', 12, 10): 24 is cut to the cap 15
C26_Witness ==
  /\ probeOut # null
  /\ probeOut.fn = "calculateSeverity"
  /\ probe.stage = "E1"
  /\ probe.lesionCount = Num(12000)
  /\ probe.avgLesionSize = Num(10000)
  /\ probeOut.score = FixedOf(15000, 1000)

\* leaf tissue: green strictly above red and blue, and above 45
LeafRule(px) == px[2] > px[1] /\ px[2] > px[3] /\ px[2] > 45

\* necrotic as claimed: red at least 0.75 x green, or all channels below 60
NecroticRuleAtLeast(px) ==
  (4 * px[1] >= 3 * px[2]) \/ (px[1] < 60 /\ px[2] < 60 /\ px[3] < 60)

\* necrotic as amended: red strictly above 0.75 x green, or all channels below 60
NecroticRuleAbove(px) ==
  (4 * px[1] > 3 * px[2]) \/ (px[1] < 60 /\ px[2] < 60 /\ px[3] < 60)

LeafRuleCount(grid) ==
    (IF LeafRule(grid.a) THEN grid.na ELSE 0)
  + (IF LeafRule(grid.b) THEN grid.nb ELSE 0)
  + (IF LeafRule(grid.c) THEN 120 * 120 - grid.na - grid.nb ELSE 0)

NecroticAtLeastCount(grid) ==
    (IF LeafRule(grid.a) /\ NecroticRuleAtLeast(grid.a) THEN grid.na ELSE 0)
  + (IF LeafRule(grid.b) /\ NecroticRuleAtLeast(grid.b) THEN grid.nb ELSE 0)
  + (IF LeafRule(grid.c) /\ NecroticRuleAtLeast(grid.c) THEN 120 * 120 - grid.na - grid.nb ELSE 0)

NecroticAboveCount(grid) ==
    (IF LeafRule(grid.a) /\ NecroticRuleAbove(grid.a) THEN grid.na ELSE 0)
  + (IF LeafRule(grid.b) /\ NecroticRuleAbove(grid.b) THEN grid.nb ELSE 0)
  + (IF LeafRule(grid.c) /\ NecroticRuleAbove(grid.c) THEN 120 * 120 - grid.na - grid.nb ELSE 0)

\* C27 as claimed: the classifier counts as leaf the pixels with g > r, g > b
\* and g > 45, and as necrotic the leaf pixels with r >= 0.75 g or all
\* channels below 60, and stages the grid by these two counts
C27_NecroticAtLeast ==
  probeOut # null =>
    /\ leafPixels(probe) = LeafRuleCount(probe)
    /\ necroticPixels(probe) = NecroticAtLeastCount(probe)
    /\ probeOut.stage = BandStage(LeafRuleCount(probe), NecroticAtLeastCount(probe))

\* C27 as amended: as above with the necrotic leaf pixels being those with
\* r strictly above 0.75 g or all channels below 60
C27_NecroticStrictlyAbove ==
  probeOut # null =>
    /\ leafPixels(probe) = LeafRuleCount(probe)
    /\ necroticPixels(probe) = NecroticAboveCount(probe)
    /\ probeOut.stage = BandStage(LeafRuleCount(probe), NecroticAboveCount(probe))
    /\ probeOut.lesionCount = Num(1000 * ((4 * NecroticAboveCount(probe) + 9) \div 18))

\* 1000 leaf pixels with red exactly 0.75 x green and no other leaf pixel:
\* none is counted as necrotic and the stage is H0
C27_Witness ==
  /\ probeOut # null
  /\ probe.a = <<90, 120, 40>> /\ probe.na = 1000
  /\ leafPixels(probe) = 1000
  /\ necroticPixels(probe) = 0
  /\ probeOut.stage = "H0"

\* C28: for every grid 0 <= necroticPixels <= leafPixels <= 14400, the
\* severityScore is a number within [0, 100] and lesionCount is a
\* non-negative whole number
C28_LocalCounterRanges ==
  probeOut # null =>
    /\ 0 <= necroticPixels(probe)
    /\ necroticPixels(probe) <= leafPixels(probe)
    /\ leafPixels(probe) <= 14400
    /\ InRange(probeOut.severityScore)
    /\ NonNegative(probeOut.lesionCount)
    /\ probeOut.lesionCount.v % 1000 = 0

\* a grid of 14400 necrotic leaf pixels: severity "100.0", lesionCount 3200
C28_Witness ==
  /\ probeOut # null
  /\ leafPixels(probe) = 14400
  /\ necroticPixels(probe) = 14400
  /\ probeOut.severityScore = FixedOf(100, 1)
  /\ probeOut.lesionCount = Num(3200000)

\* the order H0 < E1 < E2 < E3 of the stages
StageRank(stage) ==
  CASE stage = "H0" -> 0 [] stage = "E1" -> 1 [] stage = "E2" -> 2 [] stage = "E3" -> 3
    [] OTHER -> 0 - 1

\* necrotic counts the stage of a grid is compared with
NecroticSamples == {x + y : x \in RegionSizes, y \in RegionSizes} \cup {14400}

\* C29: for a grid with at least 800 leaf pixels the stage is not N0, and
\* with the same leaf count no larger necrotic count gives N0 or a lower stage
C29_StageMonotone ==
  (probeOut # null /\ leafPixels(probe) >= 800) =>
    /\ probeOut.stage # "N0"
    /\ \A n \in NecroticSamples :
         (n >= necroticPixels(probe) /\ n <= leafPixels(probe))
           => /\ localStage(leafPixels(probe), n) # "N0"
              /\ StageRank(localStage(leafPixels(probe), n)) >= StageRank(probeOut.stage)

\* 1000 leaf pixels: 100 necrotic ones give E1, 150 give E2, 1000 give E3
C29_Witness ==
  /\ probeOut # null
  /\ leafPixels(probe) = 1000
  /\ necroticPixels(probe) = 100
  /\ probeOut.stage = "E1"
  /\ localStage(1000, 150) = "E2"
  /\ localStage(1000, 1000) = "E3"

====
